---- MODULE Spec2Model ----
(***************************************************************************)
(* Model of the block hierarchy of src/models/res.py (BasicLayer,          *)
(* ConvolutionBlock, BottleneckBlock, Group, WideResidualNetwork): the     *)
(* constructors, the forward pass (call) and the shape rules               *)
(* (compute_output_shape); and of adjust_aspect_ratio of                   *)
(* src/data_handlers/preprocessing.py.                                     *)
(*                                                                         *)
(* A tensor is modelled by its shape <<batch, height, width, channels>>    *)
(* and the list of leaf layers that were applied to it.  A layer object is *)
(* a record of its attributes; None is the record [cls |-> "None"].        *)
(***************************************************************************)
EXTENDS Integers, Sequences, FiniteSets, TLC

VARIABLES
    input_shape,   \* the shape the shape rule / forward pass is applied to
    obj,           \* the layer object under construction / use
    ctor_args,     \* the arguments its constructor was called with
    shape_out,     \* last result of obj.compute_output_shape(input_shape)
    call_out,      \* last result of obj.call(tensor of input_shape)
    n_calls,       \* number of call() invocations so far
    n_shape,       \* number of compute_output_shape() invocations so far
    aspect_ratio_range,  \* the argument adjust_aspect_ratio was called with
    image,         \* shape of the image handed to _adjust_aspect_ratio
    draw,          \* the value np.random.uniform returned, in 1/DrawsPerPercent percent
    adjusted,      \* what _adjust_aspect_ratio returned or raised
    ev_class,      \* the EvaluationModel subclass being constructed
    ev_args,       \* the arguments of EvaluationModel.__init__
    ev_pc,         \* position inside EvaluationModel.__init__
    ev_attrs,      \* names of the instance attributes assigned so far
    ev_wrn,        \* the value of self.wrn
    ev_model,      \* the value of self.model
    ev_exception   \* the exception that left __init__, if any

net_vars == <<input_shape, obj, ctor_args, shape_out, call_out, n_calls, n_shape>>

aspect_vars == <<aspect_ratio_range, image, draw, adjusted>>

eval_vars == <<ev_class, ev_args, ev_pc, ev_attrs, ev_wrn, ev_model, ev_exception>>

vars == <<net_vars, aspect_vars, eval_vars>>

----------------------------------------------------------------------------
(* Bounds of the model *)

MaxDim == 6          \* input heights and widths 1..MaxDim, plus SpecialDims
MaxGroupSize == 3    \* group depth n / group_size in 0..MaxGroupSize
MaxK == 2            \* width multiplier k in 1..MaxK
MaxStride == 3       \* stride of a stand-alone block in 1..MaxStride
MaxPool == 2         \* pool sizes 1..MaxPool, plus the default
MaxCalls == 2        \* call() / compute_output_shape() invocations per behaviour
MaxImageDim == 4     \* image heights and widths 1..MaxImageDim
MaxAspectRange == 150  \* largest aspect_ratio_range, in percent
DrawsPerPercent == 2 \* the uniform draw is taken on a grid of 1/DrawsPerPercent percent
MaxClasses == 8      \* number_of_classes in 2..MaxClasses
MaxLearningRates == 2  \* learning_rate is one of 1..MaxLearningRates candidates

(* Program constants *)

DefaultPoolSize == 8

ResGroupSize == 13

FILTER_SIZES == <<16, 16, 32, 64>>

STRIDES == <<4, 1, 2, 2>>

----------------------------------------------------------------------------
(* Values *)

None == [cls |-> "None"]

NoShape == <<>>

NoTensor == [shape |-> <<>>, ops |-> <<>>]

ReLU == "ReLU"

LeakyReLU == "LeakyReLU"

(* the activation classes a caller passes as the factory *)
Activations == {ReLU, LeakyReLU}

SpecialDims == {16, 32, 128, 227}

Dims == (1..MaxDim) \cup SpecialDims

InputShapes == {<<1, h, w, 3>> : h \in Dims, w \in Dims}

PoolSizes == (1..MaxPool) \cup {DefaultPoolSize}

FilterChoices == {FILTER_SIZES[i] : i \in 1..Len(FILTER_SIZES)}

CeilDiv(a, b) == (a + b - 1) \div b

RECURSIVE Product(_)
Product(s) == IF s = <<>> THEN 1 ELSE Head(s) * Product(Tail(s))

RECURSIVE Repeat(_, _)
Repeat(x, n) == IF n <= 0 THEN <<>> ELSE <<x>> \o Repeat(x, n - 1)

----------------------------------------------------------------------------
(* Library layers (tensorflow.keras.layers) *)
(*                                                                         *)
(* Every constructor call makes a new object.  An object's identity is its *)
(* id; a constructor is given the first free id ("at") and numbers itself  *)
(* and the objects it creates from there on.                               *)

BatchNormalization(at) == [cls |-> "BatchNormalization", id |-> at]

(* activation(): a new instance of the activation class handed down *)
Activation(activation, at) == [cls |-> activation, id |-> at]

Conv2D(filters, kernel_size, strides, at) ==
    [cls |-> "Conv2D", id |-> at, filters |-> filters, kernel_size |-> kernel_size,
     strides |-> strides, padding |-> "same"]

AvgPool2D(pool_size, at) == [cls |-> "AvgPool2D", id |-> at, pool_size |-> pool_size]

(* what a call leaves when the layer raises instead of returning *)
ValueError == [shape |-> <<>>, ops |-> << <<"ValueError", 0>> >>]

Raised(x) == x.shape = <<>>

(* Conv2D with padding='same': ceil(size / stride), filters channels;      *)
(* the layer accepts rank-4 input only                                     *)
Conv2D_call(self, x) ==
    IF Len(x.shape) # 4 THEN ValueError
    ELSE [shape |-> <<x.shape[1],
                      CeilDiv(x.shape[2], self.strides),
                      CeilDiv(x.shape[3], self.strides),
                      self.filters>>,
          ops |-> Append(x.ops, <<self.cls, self.id>>)]

(* AvgPool2D with the default strides=pool_size and padding='valid';       *)
(* the layer accepts rank-4 input only                                     *)
AvgPool2D_call(self, x) ==
    IF Len(x.shape) # 4 THEN ValueError
    ELSE [shape |-> <<x.shape[1],
                      ((x.shape[2] - self.pool_size) \div self.pool_size) + 1,
                      ((x.shape[3] - self.pool_size) \div self.pool_size) + 1,
                      x.shape[4]>>,
          ops |-> Append(x.ops, <<self.cls, self.id>>)]

(* BatchNormalization and the activation keep the shape *)
Elementwise_call(self, x) ==
    [shape |-> x.shape, ops |-> Append(x.ops, <<self.cls, self.id>>)]

----------------------------------------------------------------------------
(* Constructors of src/models/res.py *)

(* number of objects a constructor call creates, itself included *)
ConvolutionBlockSpan == 1 + 3

BottleneckBlockSpan == 1 + 3 * ConvolutionBlockSpan

GroupSpan(n) == 1 + BottleneckBlockSpan * (IF n > 1 THEN n ELSE 1)

BasicLayer(cls, at, sub_layers, stride, filters, k) ==
    [cls |-> cls, id |-> at, sub_layers |-> sub_layers, stride |-> stride,
     filters |-> filters, k |-> k]

ConvolutionBlock(filters, kernel_size, stride, activation, k, at) ==
    BasicLayer("ConvolutionBlock", at,
               <<BatchNormalization(at + 1),
                 Activation(activation, at + 2),
                 Conv2D(filters * k, kernel_size, stride, at + 3)>>,
               stride, filters, k)

(* variant: the 3x3 ConvolutionBlock given the block's stride as well *)
BottleneckBlock_stride_twice(filters, stride, activation, k, at) ==
    BasicLayer("BottleneckBlock", at,
               <<ConvolutionBlock(filters * k, 1, stride, activation, 1, at + 1),
                 ConvolutionBlock(filters * k, 3, stride, activation, 1,
                                  at + 1 + ConvolutionBlockSpan),
                 ConvolutionBlock(filters * k, 1, 1, activation, 1,
                                  at + 1 + 2 * ConvolutionBlockSpan)>>,
               stride, filters, k)

(* variant: the multiplier handed on to the ConvolutionBlocks as well *)
BottleneckBlock_k_passed_on(filters, stride, activation, k, at) ==
    BasicLayer("BottleneckBlock", at,
               <<ConvolutionBlock(filters * k, 1, stride, activation, k, at + 1),
                 ConvolutionBlock(filters * k, 3, 1, activation, k,
                                  at + 1 + ConvolutionBlockSpan),
                 ConvolutionBlock(filters * k, 1, 1, activation, k,
                                  at + 1 + 2 * ConvolutionBlockSpan)>>,
               stride, filters, k)

BottleneckBlock(filters, stride, activation, k, at) ==
    BasicLayer("BottleneckBlock", at,
               <<ConvolutionBlock(filters * k, 1, stride, activation, 1, at + 1),
                 ConvolutionBlock(filters * k, 3, 1, activation, 1,
                                  at + 1 + ConvolutionBlockSpan),
                 ConvolutionBlock(filters * k, 1, 1, activation, 1,
                                  at + 1 + 2 * ConvolutionBlockSpan)>>,
               stride, filters, k)

(* variant: every BottleneckBlock of the Group given the Group's stride *)
Group_stride_everywhere(n, filters, stride, activation, k, at) ==
    BasicLayer("Group", at,
               <<BottleneckBlock(filters, stride, activation, k, at + 1)>>
                 \o [i \in 1..(n - 1) |->
                       BottleneckBlock(filters, stride, activation, k,
                                       at + 1 + i * BottleneckBlockSpan)],
               stride, filters, k)

(* variant: one BottleneckBlock made and listed n - 1 times *)
Group_shared_blocks(n, filters, stride, activation, k, at) ==
    BasicLayer("Group", at,
               <<BottleneckBlock(filters, stride, activation, k, at + 1)>>
                 \o Repeat(BottleneckBlock(filters, 1, activation, k,
                                           at + 1 + BottleneckBlockSpan), n - 1),
               stride, filters, k)

(* the comprehension makes a new BottleneckBlock for each i of range(n - 1) *)
Group(n, filters, stride, activation, k, at) ==
    BasicLayer("Group", at,
               <<BottleneckBlock(filters, stride, activation, k, at + 1)>>
                 \o [i \in 1..(n - 1) |->
                       BottleneckBlock(filters, 1, activation, k,
                                       at + 1 + i * BottleneckBlockSpan)],
               stride, filters, k)

(* variant: a Group for every entry of the schedule, the first included *)
WideResidualNetwork_group_per_entry(group_size, pool_size, activation, k, at) ==
    [cls |-> "WideResidualNetwork", id |-> at,
     groups |-> <<Conv2D(FILTER_SIZES[1], 3, STRIDES[1], at + 1)>>
                  \o [j \in 1..Len(FILTER_SIZES) |->
                        Group(group_size, FILTER_SIZES[j], STRIDES[j], activation, k,
                              at + 2 + (j - 1) * GroupSpan(group_size))]
                  \o <<AvgPool2D(pool_size,
                                 at + 2 + Len(FILTER_SIZES) * GroupSpan(group_size))>>,
     pool_size |-> pool_size]

WideResidualNetwork(group_size, pool_size, activation, k, at) ==
    [cls |-> "WideResidualNetwork", id |-> at,
     groups |-> <<Conv2D(FILTER_SIZES[1], 3, STRIDES[1], at + 1)>>
                  \o [j \in 1..(Len(FILTER_SIZES) - 1) |->
                        Group(group_size, FILTER_SIZES[j + 1], STRIDES[j + 1],
                              activation, k,
                              at + 2 + (j - 1) * GroupSpan(group_size))]
                  \o <<AvgPool2D(pool_size,
                                 at + 2 + (Len(FILTER_SIZES) - 1) * GroupSpan(group_size))>>,
     pool_size |-> pool_size]

----------------------------------------------------------------------------
(* Forward pass *)

RECURSIVE Layer_call(_, _)
RECURSIVE Sequential_call(_, _)

(* the loop of BasicLayer.call / WideResidualNetwork.call:                 *)
(* x = layers[0](inputs); for layer in layers[1:]: x = layer(x)            *)
(* each layer is applied to the value the one before returned; a layer     *)
(* that raises ends the loop                                               *)
Sequential_call(layers, x) ==
    IF layers = <<>> THEN x
    ELSE LET y == Layer_call(Head(layers), x)
         IN  IF Raised(y) THEN y ELSE Sequential_call(Tail(layers), y)

(* variant: the block's input added to the output of its last child *)
BasicLayer_call_residual(self, inputs) ==
    LET y == Sequential_call(self.sub_layers, inputs)
    IN  IF Raised(y) THEN y
        ELSE [shape |-> y.shape, ops |-> Append(y.ops, <<"Add", self.id>>)]

BasicLayer_call(self, inputs) == Sequential_call(self.sub_layers, inputs)

WideResidualNetwork_call(self, inputs) == Sequential_call(self.groups, inputs)

Layer_call(layer, x) ==
    CASE layer.cls = "Conv2D" -> Conv2D_call(layer, x)
      [] layer.cls = "AvgPool2D" -> AvgPool2D_call(layer, x)
      [] layer.cls \in {"BatchNormalization"} \cup Activations -> Elementwise_call(layer, x)
      [] layer.cls = "WideResidualNetwork" -> WideResidualNetwork_call(layer, x)
      [] OTHER -> BasicLayer_call(layer, x)

----------------------------------------------------------------------------
(* Shape rules *)

BasicLayer_compute_output_shape(self, in) ==
    <<in[1], in[2] \div self.stride, in[3] \div self.stride, self.filters * self.k>>

WideResidualNetwork_compute_output_shape(self, in) ==
    LET stride_product == Product(STRIDES)
    IN  <<in[1],
          in[2] \div (stride_product * self.pool_size),
          in[3] \div (stride_product * self.pool_size),
          FILTER_SIZES[Len(FILTER_SIZES)]>>

compute_output_shape(self, in) ==
    IF self.cls = "WideResidualNetwork"
    THEN WideResidualNetwork_compute_output_shape(self, in)
    ELSE BasicLayer_compute_output_shape(self, in)

----------------------------------------------------------------------------
(* adjust_aspect_ratio of src/data_handlers/preprocessing.py               *)
(*                                                                         *)
(* An image is modelled by its shape.  The uniform draw d is an integer    *)
(* number of 1/DrawsPerPercent percent, so that                            *)
(*   aspect_ratio = 1 + (d / DrawsPerPercent) / 100 = (Scale + d) / Scale  *)
(* and the products and quotients are exact rationals.                     *)

Scale == 100 * DrawsPerPercent

AspectRanges == {0, 25, 100, MaxAspectRange}

ImageDims == 1..MaxImageDim

Images ==
    {<<h, w>> : h \in ImageDims, w \in ImageDims}
      \cup {<<h, w, c>> : h \in ImageDims, w \in ImageDims, c \in {1, 3}}
      \cup {<<1, h, w, 3>> : h \in ImageDims, w \in ImageDims}

NotRun == [status |-> "none", shape |-> <<>>, target |-> <<>>, pad_width |-> <<>>]

Raise(exception) ==
    [status |-> exception, shape |-> <<>>, target |-> <<>>, pad_width |-> <<>>]

(* int(num / den) for den > 0: truncation toward zero *)
int(num, den) == IF num >= 0 THEN num \div den ELSE -((-num) \div den)

(* int(np.ceil(x / 2)) *)
CeilHalf(x) == -((-x) \div 2)

(* the shape numpy broadcasts two shapes of equal rank to, <<>> if none *)
Broadcast(a, b) ==
    IF \A i \in DOMAIN a : a[i] = b[i] \/ a[i] = 1 \/ b[i] = 1
    THEN [i \in DOMAIN a |-> IF a[i] = 1 THEN b[i] ELSE a[i]]
    ELSE <<>>

(* variant: both pad widths of an axis rounded down *)
adjust_aspect_ratio_floor_pads(img, d) ==
    IF Len(img) # 3 THEN Raise("ValueError")
    ELSE IF img[1] # img[2] THEN Raise("ValueError")
    ELSE
      LET target_width == IF d < 0 THEN int(img[2] * (Scale + d), Scale) ELSE img[2]
          target_height == IF d < 0 THEN img[1] ELSE int(img[1] * Scale, Scale + d)
          pad_width ==
            << <<(img[1] - target_height) \div 2, (img[1] - target_height) \div 2>>,
               <<(img[2] - target_width) \div 2, (img[2] - target_width) \div 2>>,
               <<0, 0>> >>
          ones == <<target_height, target_width, img[3]>>
          mask == [i \in 1..3 |-> pad_width[i][1] + ones[i] + pad_width[i][2]]
      IN  IF \E i \in 1..3 : ones[i] < 0 THEN Raise("ValueError")
          ELSE IF \E i \in 1..3 : pad_width[i][1] < 0 \/ pad_width[i][2] < 0
               THEN Raise("ValueError")
          ELSE IF Broadcast(mask, img) = <<>> THEN Raise("ValueError")
          ELSE [status |-> "ok", shape |-> Broadcast(mask, img),
                target |-> <<target_height, target_width>>,
                pad_width |-> pad_width]

_adjust_aspect_ratio(img, d) ==
    IF Len(img) # 3 THEN Raise("ValueError")
    ELSE IF img[1] # img[2] THEN Raise("ValueError")
    ELSE
      LET target_width == IF d < 0 THEN int(img[2] * (Scale + d), Scale) ELSE img[2]
          target_height == IF d < 0 THEN img[1] ELSE int(img[1] * Scale, Scale + d)
          pad_width ==
            << <<CeilHalf(img[1] - target_height), (img[1] - target_height) \div 2>>,
               <<CeilHalf(img[2] - target_width), (img[2] - target_width) \div 2>>,
               <<0, 0>> >>
          ones == <<target_height, target_width, img[3]>>
          mask == [i \in 1..3 |-> pad_width[i][1] + ones[i] + pad_width[i][2]]
      IN  IF \E i \in 1..3 : ones[i] < 0 THEN Raise("ValueError")
          ELSE IF \E i \in 1..3 : pad_width[i][1] < 0 \/ pad_width[i][2] < 0
               THEN Raise("ValueError")
          ELSE IF Broadcast(mask, img) = <<>> THEN Raise("ValueError")
          ELSE [status |-> "ok", shape |-> Broadcast(mask, img),
                target |-> <<target_height, target_width>>,
                pad_width |-> pad_width]

(* one application of the function adjust_aspect_ratio returned; the       *)
(* function keeps no state, so a behaviour applies it once                 *)
AdjustAspectRatio ==
    /\ image # NoShape
    /\ adjusted = NotRun
    /\ \E d \in (-(aspect_ratio_range * DrawsPerPercent))
                  ..(aspect_ratio_range * DrawsPerPercent) :
         /\ draw' = d
         /\ adjusted' = _adjust_aspect_ratio(image, d)
    /\ UNCHANGED <<net_vars, aspect_ratio_range, image, eval_vars>>

----------------------------------------------------------------------------
(* EvaluationModel of src/models/evaluation_model.py and its subclasses    *)
(* Res, Resf (src/models/res.py) and Alxs, Alx (src/models/alx.py)         *)

EvaluationModels == {"Res", "Resf", "Alxs", "Alx"}

NoArgs == [number_of_classes |-> 0, final_activation |-> "none",
           learning_rate |-> 0]

(* the class attribute model: Model = None *)
NoModel == "None"

AttrsOfInit == {"learning_rate", "dataset_name"}

AttrsOfAlxs ==
    {"conv1", "pool1", "normalization1", "conv2", "pool2", "normalization2",
     "conv3", "pool3", "flatten", "dense1", "dropout1", "dense2", "dropout2",
     "dense3"}

(* the attribute assignments of each _build_model *)
BuiltAttrs(class) ==
    CASE class = "Res" -> {"wrn", "flatten", "dense3"}
      [] class = "Resf" -> {}
      [] class = "Alxs" -> AttrsOfAlxs
      [] class = "Alx" -> {"alxs"}

(* the value _build_model leaves in self.model: none of the four assigns   *)
(* it, so it stays the class attribute                                     *)
BuiltModel(class, model) == model

(* EvaluationModel.__init__ up to the call of _build_model *)
EvalInitStart ==
    /\ ev_pc = "start"
    /\ ev_attrs' = ev_attrs \cup AttrsOfInit
    /\ ev_pc' = "build"
    /\ UNCHANGED <<net_vars, aspect_vars, ev_class, ev_args, ev_wrn, ev_model,
                   ev_exception>>

(* self._build_model(...) of the subclass.  Alx builds its graph with      *)
(* Concatenate()(a, b), two positional arguments: whether Keras raises     *)
(* there is not decided by this repository, so both outcomes are allowed.  *)
EvalBuildModel ==
    /\ ev_pc = "build"
    /\ \/ /\ ev_attrs' = ev_attrs \cup BuiltAttrs(ev_class)
          /\ ev_wrn' = IF ev_class = "Res"
                       THEN WideResidualNetwork(ResGroupSize, DefaultPoolSize, ReLU, 1, 1)
                       ELSE ev_wrn
          /\ ev_model' = BuiltModel(ev_class, ev_model)
          /\ ev_pc' = "compile"
          /\ UNCHANGED ev_exception
       \/ /\ ev_class = "Alx"
          /\ ev_exception' = "TypeError"
          /\ ev_pc' = "raised"
          /\ UNCHANGED <<ev_attrs, ev_wrn, ev_model>>
    /\ UNCHANGED <<net_vars, aspect_vars, ev_class, ev_args>>

(* self._compile_model(...): emd_weight_head_start is assigned, then       *)
(* self.model.compile is looked up, which raises AttributeError on None;   *)
(* otherwise self.model.layers[-2] is read and the model is compiled       *)
EvalCompileModel ==
    /\ ev_pc = "compile"
    /\ ev_attrs' = ev_attrs \cup {"emd_weight_head_start"}
    /\ IF ev_model = NoModel
       THEN /\ ev_exception' = "AttributeError"
            /\ ev_pc' = "raised"
            /\ UNCHANGED ev_model
       ELSE /\ ev_model' = "compiled"
            /\ ev_pc' = "done"
            /\ UNCHANGED ev_exception
    /\ UNCHANGED <<net_vars, aspect_vars, ev_class, ev_args, ev_wrn>>

----------------------------------------------------------------------------
(* Actions on the block hierarchy *)

NewConvolutionBlock ==
    /\ obj = None
    /\ \E filters \in FilterChoices, stride \in 1..MaxStride, k \in 1..MaxK :
         /\ obj' = ConvolutionBlock(filters, 3, stride, ReLU, k, 1)
         /\ ctor_args' = [cls |-> "ConvolutionBlock", n |-> 1, filters |-> filters,
                          stride |-> stride, k |-> k, pool_size |-> 1,
                          activation |-> ReLU]
    /\ UNCHANGED <<input_shape, shape_out, call_out, n_calls, n_shape, aspect_vars, eval_vars>>

NewBottleneckBlock ==
    /\ obj = None
    /\ \E filters \in FilterChoices, stride \in 1..MaxStride, k \in 1..MaxK :
         /\ obj' = BottleneckBlock(filters, stride, ReLU, k, 1)
         /\ ctor_args' = [cls |-> "BottleneckBlock", n |-> 1, filters |-> filters,
                          stride |-> stride, k |-> k, pool_size |-> 1,
                          activation |-> ReLU]
    /\ UNCHANGED <<input_shape, shape_out, call_out, n_calls, n_shape, aspect_vars, eval_vars>>

NewGroup ==
    /\ obj = None
    /\ \E n \in 0..MaxGroupSize, filters \in FilterChoices,
          stride \in 1..MaxStride, k \in 1..MaxK :
         /\ obj' = Group(n, filters, stride, ReLU, k, 1)
         /\ ctor_args' = [cls |-> "Group", n |-> n, filters |-> filters,
                          stride |-> stride, k |-> k, pool_size |-> 1,
                          activation |-> ReLU]
    /\ UNCHANGED <<input_shape, shape_out, call_out, n_calls, n_shape, aspect_vars, eval_vars>>

NewWideResidualNetwork ==
    /\ obj = None
    /\ \E group_size \in 0..MaxGroupSize, pool_size \in PoolSizes, k \in 1..MaxK,
          activation \in Activations :
         /\ obj' = WideResidualNetwork(group_size, pool_size, activation, k, 1)
         /\ ctor_args' = [cls |-> "WideResidualNetwork", n |-> group_size,
                          filters |-> FILTER_SIZES[Len(FILTER_SIZES)],
                          stride |-> Product(STRIDES), k |-> k,
                          pool_size |-> pool_size, activation |-> activation]
    /\ UNCHANGED <<input_shape, shape_out, call_out, n_calls, n_shape, aspect_vars, eval_vars>>

(* variant: the shape rule accumulates the stride into the block *)
ComputeOutputShape_in_place ==
    /\ obj # None
    /\ n_shape < MaxCalls
    /\ shape_out' = compute_output_shape(obj, input_shape)
    /\ obj' = IF obj.cls = "WideResidualNetwork"
              THEN [obj EXCEPT !.pool_size = @ * Product(STRIDES)]
              ELSE [obj EXCEPT !.stride = @ * 2]
    /\ n_shape' = n_shape + 1
    /\ UNCHANGED <<input_shape, ctor_args, call_out, n_calls, aspect_vars, eval_vars>>

ComputeOutputShape ==
    /\ obj # None
    /\ n_shape < MaxCalls
    /\ shape_out' = compute_output_shape(obj, input_shape)
    /\ n_shape' = n_shape + 1
    /\ UNCHANGED <<input_shape, obj, ctor_args, call_out, n_calls, aspect_vars, eval_vars>>

Call ==
    /\ obj # None
    /\ n_calls < MaxCalls
    /\ call_out' = Layer_call(obj, [shape |-> input_shape, ops |-> <<>>])
    /\ n_calls' = n_calls + 1
    /\ UNCHANGED <<input_shape, obj, ctor_args, shape_out, n_shape, aspect_vars, eval_vars>>

NetIdle ==
    /\ obj = None
    /\ ctor_args = None
    /\ shape_out = NoShape
    /\ call_out = NoTensor
    /\ n_calls = 0
    /\ n_shape = 0

AspectIdle ==
    /\ aspect_ratio_range = 0
    /\ image = NoShape
    /\ draw = 0
    /\ adjusted = NotRun

EvalIdle ==
    /\ ev_class = "None"
    /\ ev_args = NoArgs
    /\ ev_pc = "idle"
    /\ ev_attrs = {}
    /\ ev_wrn = None
    /\ ev_model = NoModel
    /\ ev_exception = "none"

Init ==
    /\ input_shape \in InputShapes
    /\ NetIdle
    /\ AspectIdle
    /\ EvalIdle

Next ==
    \/ NewConvolutionBlock
    \/ NewBottleneckBlock
    \/ NewGroup
    \/ NewWideResidualNetwork
    \/ ComputeOutputShape
    \/ Call

Spec == Init /\ [][Next]_vars

AspectInit ==
    /\ input_shape = NoShape
    /\ NetIdle
    /\ aspect_ratio_range \in AspectRanges
    /\ image \in Images
    /\ draw = 0
    /\ adjusted = NotRun
    /\ EvalIdle

AspectNext == AdjustAspectRatio

SpecAspect == AspectInit /\ [][AspectNext]_vars

EvalInit ==
    /\ input_shape = NoShape
    /\ NetIdle
    /\ AspectIdle
    /\ ev_class \in EvaluationModels
    /\ ev_args \in [number_of_classes : 2..MaxClasses,
                    final_activation : {"softmax", "linear"},
                    learning_rate : 1..MaxLearningRates]
    /\ ev_pc = "start"
    /\ ev_attrs = {}
    /\ ev_wrn = None
    /\ ev_model = NoModel
    /\ ev_exception = "none"

EvalNext == EvalInitStart \/ EvalBuildModel \/ EvalCompileModel

SpecEval == EvalInit /\ [][EvalNext]_vars

----------------------------------------------------------------------------
(* Helpers of the properties *)

IsNetwork == obj.cls = "WideResidualNetwork"

ShapeComputed == shape_out # NoShape

CallDone == call_out # NoTensor /\ ~Raised(call_out)

ValidConfig ==
    /\ ctor_args # None
    /\ ctor_args.n >= 1
    /\ ctor_args.k >= 1
    /\ ctor_args.pool_size >= 1

DivisibleInput ==
    /\ input_shape[2] % Product(STRIDES) = 0
    /\ input_shape[3] % Product(STRIDES) = 0

(* the shape rule of one element of WideResidualNetwork.groups: the blocks *)
(* of res.py use BasicLayer.compute_output_shape, the library layers their *)
(* own rule, which is the shape their call produces                        *)
Stage_compute_output_shape(layer, in) ==
    IF layer.cls \in {"Conv2D", "AvgPool2D"}
    THEN Layer_call(layer, [shape |-> in, ops |-> <<>>]).shape
    ELSE BasicLayer_compute_output_shape(layer, in)

(* heights after each element of groups, by the elements' shape rules *)
RECURSIVE RuleHeights(_, _)
RuleHeights(layers, in) ==
    IF layers = <<>> THEN <<in[2]>>
    ELSE <<in[2]>> \o RuleHeights(Tail(layers),
                                  Stage_compute_output_shape(Head(layers), in))

(* heights after each element of groups in the forward pass *)
RECURSIVE CallHeights(_, _)
CallHeights(layers, x) ==
    IF layers = <<>> THEN <<x.shape[2]>>
    ELSE <<x.shape[2]>> \o CallHeights(Tail(layers), Layer_call(Head(layers), x))

(* strides of all the Conv2D layers below a layer, in order *)
RECURSIVE ConvStrides(_)
RECURSIVE ConvStridesOfAll(_)
ConvStrides(layer) ==
    IF layer.cls = "Conv2D" THEN <<layer.strides>>
    ELSE IF layer.cls \in {"BatchNormalization", "AvgPool2D"} \cup Activations THEN <<>>
    ELSE ConvStridesOfAll(layer.sub_layers)

ConvStridesOfAll(layers) ==
    IF layers = <<>> THEN <<>>
    ELSE ConvStrides(Head(layers)) \o ConvStridesOfAll(Tail(layers))

----------------------------------------------------------------------------
(* C1: for every valid configuration and every input shape whose height    *)
(* and width are divisible by the cumulative stride, the shape returned by *)
(* WideResidualNetwork.compute_output_shape equals, in all four            *)
(* dimensions, the shape of the tensor WideResidualNetwork.call returns.   *)
C1_ShapeRuleAgreesWithCall ==
    (IsNetwork /\ ValidConfig /\ DivisibleInput /\ ShapeComputed /\ CallDone)
        => shape_out = call_out.shape

(* C2: the channel count reported by the network's shape rule is the last  *)
(* stage's filter count times k, and the reported spatial dimensions are   *)
(* those reported for k = 1.                                               *)
C2_ChannelsScaleWithK ==
    (IsNetwork /\ ValidConfig /\ ShapeComputed) =>
        LET k1 == WideResidualNetwork(ctor_args.n, ctor_args.pool_size,
                                       ctor_args.activation, 1, 1)
            s1 == WideResidualNetwork_compute_output_shape(k1, input_shape)
        IN  /\ shape_out[4] = FILTER_SIZES[Len(FILTER_SIZES)] * ctor_args.k
            /\ shape_out[2] = s1[2]
            /\ shape_out[3] = s1[3]

(* C3: for input (1, 227, 227, 3), pool size 8 and k = 1 the network's     *)
(* shape rule returns (1, 1, 1, 64) and the spatial sizes given stage by   *)
(* stage by the shape rules are 227, 57, 57, 29, 15, 1.                    *)
C3_Scenario227 ==
    (/\ IsNetwork /\ ValidConfig /\ ShapeComputed
     /\ input_shape = <<1, 227, 227, 3>>
     /\ ctor_args.pool_size = DefaultPoolSize
     /\ ctor_args.k = 1) =>
        /\ shape_out = <<1, 1, 1, 64>>
        /\ RuleHeights(obj.groups, input_shape) = <<227, 57, 57, 29, 15, 1>>

(* C4 as stated: a built network is one stem convolution, exactly four     *)
(* Groups and one terminal average pool.                                   *)
C4_FourGroups ==
    IsNetwork =>
        /\ Len(obj.groups) = 6
        /\ obj.groups[1].cls = "Conv2D"
        /\ \A i \in 2..5 : obj.groups[i].cls = "Group"
        /\ obj.groups[6].cls = "AvgPool2D"

(* C4 as amended: a built network is, in order, one stem convolution (the  *)
(* first entry of the four-entry schedule), exactly three Groups (one per  *)
(* remaining entry, with that entry's filter count and stride) and one     *)
(* terminal average pool.                                                  *)
C4_ThreeGroups ==
    IsNetwork =>
        /\ Len(obj.groups) = Len(FILTER_SIZES) + 1
        /\ obj.groups[1].cls = "Conv2D"
        /\ obj.groups[1].filters = FILTER_SIZES[1]
        /\ obj.groups[1].strides = STRIDES[1]
        /\ \A i \in 2..Len(FILTER_SIZES) :
              /\ obj.groups[i].cls = "Group"
              /\ obj.groups[i].filters = FILTER_SIZES[i]
              /\ obj.groups[i].stride = STRIDES[i]
        /\ Cardinality({i \in DOMAIN obj.groups : obj.groups[i].cls = "Group"}) = 3
        /\ obj.groups[Len(obj.groups)].cls = "AvgPool2D"
        /\ obj.groups[Len(obj.groups)].pool_size = ctor_args.pool_size

C4_Witness == IsNetwork /\ ctor_args.n = 2 /\ CallDone

(* C5: in a Group built with n >= 1 and stride s exactly the first         *)
(* BottleneckBlock carries stride s and the other n-1 carry stride 1; the  *)
(* strides of all its convolutions multiply to s, and a forward pass       *)
(* reduces height and width by the factor s once.                          *)
C5_StrideAppliedOnce ==
    (obj.cls = "Group" /\ ctor_args.n >= 1) =>
        LET s == ctor_args.stride
        IN  /\ Len(obj.sub_layers) = ctor_args.n
            /\ obj.sub_layers[1].stride = s
            /\ \A i \in 2..Len(obj.sub_layers) : obj.sub_layers[i].stride = 1
            /\ Product([i \in DOMAIN obj.sub_layers |-> obj.sub_layers[i].stride]) = s
            /\ Product(ConvStrides(obj)) = s
            /\ CallDone =>
                 /\ call_out.shape[2] = CeilDiv(input_shape[2], s)
                 /\ call_out.shape[3] = CeilDiv(input_shape[3], s)

C5_Witness ==
    /\ obj.cls = "Group"
    /\ ctor_args.n = 3
    /\ ctor_args.stride = 2
    /\ input_shape[2] = 6
    /\ CallDone
    /\ call_out.shape[2] = 3

(* C6: a malformed configuration (group depth <= 0, width multiplier <= 0  *)
(* or stride <= 0) is rejected at construction: no object exists for it.   *)
C6_MalformedRejected ==
    (/\ ctor_args # None
     /\ ctor_args.cls \in {"Group", "WideResidualNetwork"}
     /\ (ctor_args.n <= 0 \/ ctor_args.k <= 0 \/ ctor_args.stride <= 0))
        => obj = None

(* C7: the shape rule of a ConvolutionBlock with stride s, filter count f  *)
(* and multiplier k returns (b, ceil(h/s), ceil(w/s), f*k).                *)
C7_CeilingShapeRule ==
    (obj.cls = "ConvolutionBlock" /\ ShapeComputed) =>
        shape_out = <<input_shape[1],
                      CeilDiv(input_shape[2], ctor_args.stride),
                      CeilDiv(input_shape[3], ctor_args.stride),
                      ctor_args.filters * ctor_args.k>>

Ran == adjusted.status # "none"

SquareRank3 == Len(image) = 3 /\ image[1] = image[2]

WidthAppliedOnce(group, f, k) ==
    \A b \in DOMAIN group.sub_layers :
        LET block == group.sub_layers[b]
        IN  /\ Len(block.sub_layers) = 3
            /\ \A c \in DOMAIN block.sub_layers :
                  LET conv_block == block.sub_layers[c]
                  IN  /\ conv_block.sub_layers[3].cls = "Conv2D"
                      /\ conv_block.sub_layers[3].filters = f * k
                      /\ BasicLayer_compute_output_shape(conv_block, input_shape)[4]
                           = f * k

C10_WidthAppliedOnce ==
    /\ obj.cls = "Group" => WidthAppliedOnce(obj, ctor_args.filters, ctor_args.k)
    /\ IsNetwork =>
          /\ obj.groups[1].filters = FILTER_SIZES[1]
          /\ \A i \in 2..(Len(obj.groups) - 1) :
                WidthAppliedOnce(obj.groups[i], FILTER_SIZES[i], ctor_args.k)

C10_Witness ==
    /\ IsNetwork
    /\ ctor_args.k = 2
    /\ ctor_args.n = 2
    /\ obj.groups[4].sub_layers[2].sub_layers[3].sub_layers[3].filters = 128

(* C11: for every BottleneckBlock and every Group, and every input shape,  *)
(* the block's own compute_output_shape equals its children's              *)
(* compute_output_shape applied in sequence to that input shape: the       *)
(* effective stride is the product of the children's strides, which is the *)
(* first child's stride, and the channel count is that of the last child.  *)
RECURSIVE ChildrenRule(_, _)
ChildrenRule(layers, in) ==
    IF layers = <<>> THEN in
    ELSE ChildrenRule(Tail(layers), BasicLayer_compute_output_shape(Head(layers), in))

C11_RuleComposesChildren ==
    (obj.cls \in {"BottleneckBlock", "Group"} /\ ShapeComputed) =>
        LET children == obj.sub_layers
            strides == [i \in DOMAIN children |-> children[i].stride]
            last == children[Len(children)]
        IN  /\ shape_out = ChildrenRule(children, input_shape)
            /\ Product(strides) = children[1].stride
            /\ shape_out[2] = input_shape[2] \div Product(strides)
            /\ shape_out[3] = input_shape[3] \div Product(strides)
            /\ shape_out[4] = last.filters * last.k

C11_Witness ==
    /\ obj.cls = "Group"
    /\ ctor_args.n = 3
    /\ ctor_args.stride = 2
    /\ ctor_args.k = 2
    /\ input_shape[2] = 5
    /\ ShapeComputed
    /\ shape_out[2] = 2

----------------------------------------------------------------------------
(* The tree below an object *)

IsLeaf(layer) ==
    layer.cls \in {"BatchNormalization", "Conv2D", "AvgPool2D"} \cup Activations

Children(layer) ==
    IF IsLeaf(layer) THEN <<>>
    ELSE IF layer.cls = "WideResidualNetwork" THEN layer.groups
    ELSE layer.sub_layers

(* the leaf layers below a layer, as <<class, id>>, in list order *)
RECURSIVE Leaves(_)
RECURSIVE LeavesOfAll(_)
Leaves(layer) ==
    IF IsLeaf(layer) THEN << <<layer.cls, layer.id>> >>
    ELSE LeavesOfAll(Children(layer))

LeavesOfAll(layers) ==
    IF layers = <<>> THEN <<>>
    ELSE Leaves(Head(layers)) \o LeavesOfAll(Tail(layers))

(* every object of the tree, once for each place it is listed at *)
RECURSIVE Objects(_)
RECURSIVE ObjectsOfAll(_)
Objects(layer) == <<layer>> \o ObjectsOfAll(Children(layer))

ObjectsOfAll(layers) ==
    IF layers = <<>> THEN <<>>
    ELSE Objects(Head(layers)) \o ObjectsOfAll(Tail(layers))

Input == [shape |-> input_shape, ops |-> <<>>]

(* C12: a forward pass through a block applies its children strictly in    *)
(* list order, each exactly once, each on the output of the one before,    *)
(* and returns the last child's output with nothing added (no skip         *)
(* connection): the layers applied are exactly the leaf layers of the      *)
(* block, in list order; in a ConvolutionBlock they are normalization,     *)
(* activation, convolution; a Group of depth 1 returns exactly what its    *)
(* single BottleneckBlock returns.                                         *)
C12_ForwardInListOrder ==
    CallDone =>
        /\ call_out.ops = Leaves(obj)
        /\ ~IsNetwork =>
              LET children == obj.sub_layers
                  n == Len(children)
              IN  call_out = Layer_call(children[n],
                                        Sequential_call(SubSeq(children, 1, n - 1), Input))
        /\ obj.cls = "ConvolutionBlock" =>
              [i \in DOMAIN call_out.ops |-> call_out.ops[i][1]]
                 = <<"BatchNormalization", ctor_args.activation, "Conv2D">>
        /\ (obj.cls = "Group" /\ ctor_args.n = 1) =>
              /\ Len(obj.sub_layers) = 1
              /\ call_out = Layer_call(obj.sub_layers[1], Input)

C12_Witness ==
    /\ obj.cls = "Group"
    /\ ctor_args.n = 1
    /\ ctor_args.stride = 2
    /\ CallDone
    /\ Len(call_out.ops) = 9
    /\ call_out.ops[1][1] = "BatchNormalization"
    /\ call_out.ops[9][1] = "Conv2D"

(* C13: the built hierarchy is a strict tree: no layer instance is listed  *)
(* under two parents or twice under one parent, and every ConvolutionBlock *)
(* holds an activation instance of its own, made from the activation       *)
(* factory the outermost constructor was given.                            *)
C13_StrictTree ==
    obj # None =>
        LET objects == Objects(obj)
            blocks == {i \in DOMAIN objects : objects[i].cls = "ConvolutionBlock"}
        IN  /\ Cardinality({objects[i].id : i \in DOMAIN objects}) = Len(objects)
            /\ \A i \in blocks :
                  /\ objects[i].sub_layers[2].cls = ctor_args.activation
                  /\ objects[i].sub_layers[2].id # objects[i].id
            /\ Cardinality({objects[i].sub_layers[2].id : i \in blocks})
                 = Cardinality(blocks)

C13_Witness ==
    /\ IsNetwork
    /\ ctor_args.n = 3
    /\ ctor_args.activation = LeakyReLU
    /\ Len(Objects(obj)) = 3 + 3 * GroupSpan(3)
    /\ CallDone

(* C14: constructing a concrete EvaluationModel (Res, Resf, Alxs, Alx)     *)
(* runs _build_model and then _compile_model; when _compile_model runs     *)
(* self.model has been assigned a model object (it is not the class        *)
(* default None), and construction ends with a compiled model rather than  *)
(* with an exception.                                                      *)
C14_ModelAssignedBeforeCompile ==
    /\ ev_pc = "compile" => ev_model # NoModel
    /\ ev_pc # "raised"
    /\ ev_pc = "done" => ev_model = "compiled"

====
